---- MODULE Spec2Model ----
(***************************************************************************)
(* Weaver: a resilient HTTP client, a permit-gated proxy endpoint          *)
(* allocator, a managed browser session with fingerprint overrides, and    *)
(* the SpiderRunner that builds the clients a spider needs, streams its    *)
(* records and tears the clients down.                                     *)
(*                                                                         *)
(* Each component is a state machine of its own (HttpSpec, ProxySpec,      *)
(* BrowserSpec, Spec for the runner); the variables of the components a    *)
(* specification does not exercise stay at their initial values.           *)
(***************************************************************************)
EXTENDS Integers, Sequences, FiniteSets, TLC

\* ------------------------------------------------------------------ bounds
\* Largest max_retries a RequestConfig is given in the model.
MaxRetries == 2
\* Largest retry_delay (seconds, whole) a RequestConfig is given in the model.
MaxDelay == 2
\* Largest max_connections a ProxyPool is given in the model.
MaxConnections == 3
\* The number of acquire_rotating / acquire_static calls the model follows.
MaxCalls == 4
\* The number of records a spider's run yields in the model, at most.
MaxRecords == 2
\* The number of browser contexts / pages / navigations per page the model follows.
MaxContexts == 2
MaxPages == 2
MaxNavigations == 2
MaxCloses == 2
MaxManagers == 2
MaxPools == 2

\* ------------------------------------------------------------- Optional[T]
\* Python's None and a present value v, kept apart from every value of T.
None == <<>>
Some(v) == <<v>>
IsNone(o) == o = <<>>

Pow2(n) == IF n <= 0 THEN 1 ELSE 2 ^ n

Min(a, b) == IF a <= b THEN a ELSE b

Range(seq) == { seq[i] : i \in DOMAIN seq }

\* ================================================================== state
\* HttpClient
VARIABLES
    h_pc,           \* "idle" | "running" | "returned" | "raised"
    h_entry,        \* "request" | "request_raw": the method the caller called
    h_config,       \* the RequestConfig of the call
    h_attempt,      \* request_raw's loop variable `attempt`
    h_outcomes,     \* what the transport did on each attempt so far
    h_sent,         \* the kwargs handed to session.request on each attempt
    h_sleeps,       \* every asyncio.sleep duration of the call, in order
    h_error,        \* the exception that left the call (None while there is none)
    h_result,       \* what the call returned (None while it has not)
    h_handles,      \* the Response objects session.request returned during the
                    \* call, in order, each with whether close() was called on it
    h_session       \* self._session: whether the AsyncSession is closed, and
                    \* every HttpClient.close call so far

httpVars == <<h_pc, h_entry, h_config, h_attempt, h_outcomes, h_sent, h_sleeps,
              h_error, h_result, h_handles, h_session>>

\* ProxyManager
VARIABLES
    p_pool,         \* p_pool[m]: the ProxyPool of ProxyManager m (self.pool)
    p_value,        \* p_value[m]: the free permits of m's Semaphore
    p_leased,       \* ProxyManager._static_endpoint_pool, one set per process
    p_calls,        \* every acquire_* call made so far, in order, with its outcome
    p_made          \* every ProxyPool(...) constructor call so far, in order,
                    \* with the pool it yielded or the error it raised

proxyVars == <<p_pool, p_value, p_leased, p_calls, p_made>>

\* SpiderRunner
VARIABLES
    spider_config,  \* SpiderRunner.spider_config: which of browser / http /
                    \* proxy_pool it carries
    r_exec          \* r_exec[e]: the state of scrape execution e (see IdleExec)

runnerVars == <<spider_config, r_exec>>

\* BrowserClient and BrowserOverrideService
VARIABLES
    b_config,       \* the BrowserOverrideConfig handed to new_page
    b_open_contexts, \* BrowserClient._open_contexts: the tracked contexts, as
                    \* indexes into b_engine.contexts
    b_engine,       \* the engine behind self.browser and self.playwright: its
                    \* contexts, its browser, its driver (see EngineLaunched)
    b_pages,        \* every page context.new_page() created, in order
    b_calls         \* every new_context / new_page / close call so far, with
                    \* its outcome

browserVars == <<b_config, b_open_contexts, b_engine, b_pages, b_calls>>

vars == <<httpVars, proxyVars, runnerVars, browserVars>>

\* What an action of one component leaves alone: the other components.
notHttp == <<proxyVars, runnerVars, browserVars>>
notProxy == <<httpVars, runnerVars, browserVars>>
notRunner == <<httpVars, proxyVars, browserVars>>
notBrowser == <<httpVars, proxyVars, runnerVars>>

\* =================================================================== HTTP
\* The four fields _build_request_kwargs merges.
MergedFields == {"headers", "cookies", "timeout", "impersonate"}

\* HttpConfig: the session defaults (one dict of headers, no cookies, 30 s,
\* the default impersonation profile).
SessionConfig ==
    [headers |-> "{X:0}", cookies |-> "None", timeout |-> 30, impersonate |-> "chrome"]

\* The value of each field that Python treats as false although it is set.
FalsyValue ==
    [headers |-> "{}", cookies |-> "{}", timeout |-> 0, impersonate |-> ""]

\* A value of each field that is set and true.
RequestValue ==
    [headers |-> "{X:1}", cookies |-> "{c:1}", timeout |-> 5, impersonate |-> "firefox"]

\* What a RequestConfig can carry in a merged field: None, a falsy value, a value.
FieldChoices(f) == {None, Some(FalsyValue[f]), Some(RequestValue[f])}

\* extra_kwargs: empty, or carrying keys of its own, or carrying keys that
\* collide with the ones _build_request_kwargs sets.
EmptyDict == [k \in {} |-> 0]
ExtraKwargsChoices ==
    { EmptyDict,
      [verify |-> "False"],
      [headers |-> "{X:extra}", timeout |-> 99] }

\* a | b on Python dicts: the keys of both, b's value where both have the key.
DictUnion(a, b) ==
    [k \in DOMAIN a \cup DOMAIN b |-> IF k \in DOMAIN b THEN b[k] ELSE a[k]]

\* `x or d`: a set but falsy value falls back to the default.
OrDefaultTruthy(f, x, d) ==
    IF ~IsNone(x) /\ x[1] # FalsyValue[f] THEN x[1] ELSE d

\* `x if x is not None else d`
OrDefault(f, x, d) == IF ~IsNone(x) THEN x[1] ELSE d

\* HttpClient._build_request_kwargs
BuildRequestKwargs(config) ==
    LET request_kwargs ==
            [headers     |-> OrDefault("headers", config.headers, SessionConfig.headers),
             cookies     |-> OrDefault("cookies", config.cookies, SessionConfig.cookies),
             timeout     |-> OrDefault("timeout", config.timeout, SessionConfig.timeout),
             impersonate |-> OrDefault("impersonate", config.impersonate,
                                       SessionConfig.impersonate),
             params      |-> "params",
             data        |-> "data",
             json        |-> "json"]
    IN  DictUnion(config.extra_kwargs, request_kwargs)

\* RequestConfig: max_retries is an unchecked int, so -1 is a value it can have.
\* The configs that exercise the retry loop leave the merged fields unset ...
RetryConfigs ==
    [max_retries  : -1 .. MaxRetries,
     retry_delay  : 1 .. MaxDelay,
     headers      : {None},
     cookies      : {None},
     timeout      : {None, Some(RequestValue.timeout)},
     impersonate  : {None},
     extra_kwargs : {EmptyDict}]

\* ... and the configs that exercise the merge make a single attempt.
KwargsConfigs ==
    [max_retries  : {0},
     retry_delay  : {1},
     headers      : FieldChoices("headers"),
     cookies      : FieldChoices("cookies"),
     timeout      : FieldChoices("timeout"),
     impersonate  : FieldChoices("impersonate"),
     extra_kwargs : ExtraKwargsChoices]

\* What session.request does on one attempt: a response (its status and body),
\* a transport error or timeout, or some other exception.
TransportOutcomes ==
    [kind : {"response"}, status : {399, 400, 503}, body : {"body"}]
    \cup [kind : {"RequestsError", "TimeoutError", "ValueError"},
          status : {0}, body : {""}]

\* The exception classes of the call.
NoError == [type |-> "none", status_code |-> None, response_text |-> None,
            cause |-> None, origin |-> None]
\* HttpClientError(message, status_code, response_text), raised `from` cause.
HttpClientError(status_code, response_text, cause) ==
    [type |-> "HttpClientError", status_code |-> status_code,
     response_text |-> response_text, cause |-> cause, origin |-> None]
\* The exception the transport (or anything below it) raised on attempt `at`,
\* told apart from every other by its class and the attempt it belongs to
\* (`origin`); `raise ... from e` stores e's origin as the new error's cause.
RaisedBy(o, at) == [type |-> o.kind, at |-> at]
RawError(o, at) ==
    [type |-> o.kind, status_code |-> None, response_text |-> None,
     cause |-> None, origin |-> Some(RaisedBy(o, at))]

\* `if response.status_code >= 400`
StatusIsError(status) == status >= 400

\* HttpClient._make_single_request: the response, or the exception it raises.
\* `at` is the attempt index, which tells the exceptions of two attempts apart.
MakeSingleRequest(o, at) ==
    IF o.kind = "response"
    THEN IF StatusIsError(o.status)
         THEN [raised |-> TRUE,
               exc |-> HttpClientError(Some(o.status), Some(o.body), None)]
         ELSE [raised |-> FALSE, exc |-> NoError]
    ELSE [raised |-> TRUE, exc |-> RawError(o, at)]

\* `except (RequestsError, asyncio.TimeoutError)`
CaughtAsNetworkErrorWide(exc) ==
    exc.type \in {"RequestsError", "TimeoutError", "HttpClientError"}
CaughtAsNetworkError(exc) == exc.type \in {"RequestsError", "TimeoutError"}

\* range(config.max_retries + 1): the attempt indices the loop of request_raw
\* goes through, none at all for a negative max_retries.
RangeAtLeastOne(config) ==
    0 .. (IF config.max_retries < 0 THEN 0 ELSE config.max_retries)
AttemptRange(config) == 0 .. config.max_retries

\* HttpClient._handle_network_error raises on the final attempt.
IsFinalAttempt(config, attempt) == attempt = config.max_retries

\* The backoff of request_raw: retry_delay * (2 ** attempt).
RetryDelayTimes(config, attempt) == config.retry_delay * (2 * attempt)
RetryDelay(config, attempt) == config.retry_delay * Pow2(attempt)

\* HttpClient.request wraps whatever is not an HttpClientError; request_raw
\* lets it through as it is.
LeavesCall(entry, exc) ==
    IF entry = "request" /\ exc.type # "HttpClientError"
    THEN HttpClientError(None, None, exc.origin)
    ELSE exc

HttpIdle ==
    /\ h_pc = "idle"
    /\ h_entry = "request_raw"
    /\ h_config = [max_retries |-> 0, retry_delay |-> 1, headers |-> None,
                   cookies |-> None, timeout |-> None, impersonate |-> None,
                   extra_kwargs |-> EmptyDict]
    /\ h_attempt = 0
    /\ h_outcomes = <<>>
    /\ h_sent = <<>>
    /\ h_sleeps = <<>>
    /\ h_error = NoError
    /\ h_result = None
    /\ h_handles = <<>>
    /\ h_session = [state |-> "open", closes |-> <<>>]

\* A caller calls request(config) or request_raw(config). range(max_retries + 1)
\* is empty for a negative max_retries: the loop body never runs and the
\* statements after the loop raise.
HttpCall(entry, config) ==
    /\ h_pc = "idle"
    /\ h_entry' = entry
    /\ h_config' = config
    /\ h_attempt' = 0
    /\ IF AttemptRange(config) = {}
       THEN /\ h_pc' = "raised"
            /\ h_error' = HttpClientError(None, None, None)
       ELSE /\ h_pc' = "running"
            /\ h_error' = NoError
    /\ UNCHANGED <<h_outcomes, h_sent, h_sleeps, h_result, h_handles, h_session>>
    /\ UNCHANGED notHttp

\* HttpClient.request, `finally: if response is not None: response.close()`:
\* `response` is bound only when request_raw returned, so the handle of an
\* attempt is closed by request exactly when that attempt returned it.
\* request_raw closes nothing: its caller owns what it returns.
ResponseClosed(entry, raised) == entry = "request" /\ ~raised

\* One iteration of request_raw's loop: the request, then what the try
\* statement makes of its outcome, the sleep included.
HttpAttempt(o) ==
    /\ h_pc = "running"
    /\ LET got == MakeSingleRequest(o, h_attempt) IN
       /\ h_outcomes' = Append(h_outcomes, o)
       /\ h_handles' = IF o.kind = "response"
                       THEN Append(h_handles,
                                   [at |-> h_attempt, status |-> o.status,
                                    closed |-> ResponseClosed(h_entry, got.raised)])
                       ELSE h_handles
       /\ h_sent' = Append(h_sent, BuildRequestKwargs(h_config))
       /\ IF ~got.raised
          THEN /\ h_pc' = "returned"
               /\ h_result' = Some([status |-> o.status, at |-> h_attempt])
               /\ UNCHANGED <<h_attempt, h_sleeps, h_error>>
          ELSE IF CaughtAsNetworkError(got.exc)
          THEN IF IsFinalAttempt(h_config, h_attempt)
               THEN /\ h_pc' = "raised"
                    /\ h_error' = HttpClientError(None, None, got.exc.origin)
                    /\ UNCHANGED <<h_attempt, h_sleeps, h_result>>
               ELSE /\ h_sleeps' = Append(h_sleeps, RetryDelay(h_config, h_attempt))
                    /\ IF h_attempt + 1 \in AttemptRange(h_config)
                       THEN /\ h_attempt' = h_attempt + 1
                            /\ UNCHANGED <<h_pc, h_error>>
                       ELSE /\ h_pc' = "raised"
                            /\ h_error' = HttpClientError(None, None, None)
                            /\ UNCHANGED h_attempt
                    /\ UNCHANGED h_result
          ELSE /\ h_pc' = "raised"
               /\ h_error' = LeavesCall(h_entry, got.exc)
               /\ UNCHANGED <<h_attempt, h_sleeps, h_result>>
    /\ UNCHANGED <<h_entry, h_config, h_session>>
    /\ UNCHANGED notHttp

\* `if self._session is not None`: _session is bound in __init__ to the
\* AsyncSession and never rebound, so the test never skips the close.
SessionIsNotNone(session) == TRUE

\* HttpClient.close. `raises`: the library's session.close() raises. What
\* close() does on a session that is already closed is the library's affair:
\* either outcome is allowed.
HttpClose(raises) ==
    /\ h_pc # "running"
    /\ Len(h_session.closes) < MaxCloses
    /\ LET delegated == SessionIsNotNone(h_session) IN
       /\ raises => delegated
       /\ h_session' =
             [state  |-> IF delegated /\ ~raises THEN "closed" ELSE h_session.state,
              closes |-> Append(h_session.closes,
                                [before |-> h_session.state,
                                 delegated |-> delegated,
                                 raised |-> raises])]
    /\ UNCHANGED <<h_pc, h_entry, h_config, h_attempt, h_outcomes, h_sent, h_sleeps,
                   h_error, h_result, h_handles>>
    /\ UNCHANGED notHttp

HttpNext ==
    \/ \E entry \in {"request", "request_raw"}, config \in RetryConfigs :
          HttpCall(entry, config)
    \/ \E o \in TransportOutcomes : HttpAttempt(o)

KwargsNext ==
    \/ \E entry \in {"request", "request_raw"}, config \in KwargsConfigs :
          HttpCall(entry, config)
    \/ \E o \in TransportOutcomes : HttpAttempt(o)

\* Requests on a client, and closes of it between them.
SessionNext ==
    \/ \E entry \in {"request", "request_raw"}, config \in RetryConfigs :
          HttpCall(entry, config)
    \/ \E o \in TransportOutcomes : HttpAttempt(o)
    \/ \E raises \in BOOLEAN : HttpClose(raises)

\* ================================================================== proxy

\* The static endpoint lists a pool is given.
StaticLists == { <<>>, <<"e1">>, <<"e1", "e2">>, <<"e2", "e1">> }

\* `not x` on an Optional[str]: None and the empty string are both false.
Truthy(o) == ~IsNone(o) /\ o # Some("")

\* ProxyPool.__post_init__: the two checks that let a pool exist. An absent
\* and an empty static_endpoints are both <<>> here, both false in Python.
ProxyPoolValidLoose(pool) ==
    /\ ~(IsNone(pool.rotating_endpoint) /\ pool.static_endpoints = <<>>)
    /\ ~(pool.max_connections < 0)
ProxyPoolValid(pool) ==
    /\ ~(~Truthy(pool.rotating_endpoint) /\ pool.static_endpoints = <<>>)
    /\ ~(pool.max_connections < 1)

\* What a caller can hand to ProxyPool(...).
PoolArgs ==
    [max_connections   : -1 .. MaxConnections,
     rotating_endpoint : {None, Some(""), Some("rot")},
     static_endpoints  : StaticLists]

ProxyPools ==
    { pool \in [max_connections   : 0 .. MaxConnections,
                rotating_endpoint : {None, Some("rot")},
                static_endpoints  : StaticLists] : ProxyPoolValid(pool) }

\* asyncio.Semaphore.acquire on a semaphore nobody releases: a free permit is
\* taken at once, without suspending; with none free the caller suspends
\* until a release, and ProxyManager has no call of release.
SemaphoreRelease(value) == [granted |-> TRUE, value |-> value + 1]
SemaphoreAcquireUngated(value) == [granted |-> TRUE, value |-> value - 1]
SemaphoreAcquire(value) ==
    IF value > 0
    THEN [granted |-> TRUE, value |-> value - 1]
    ELSE [granted |-> FALSE, value |-> value]

\* ProxyManager._get_static_endpoint: the first configured endpoint not in the
\* leased set, or ProxyError (None here) when there is none.
GetStaticEndpointAny(static_endpoints, leased) ==
    IF static_endpoints = <<>> THEN None ELSE Some(static_endpoints[1])
GetStaticEndpointLast(static_endpoints, leased) ==
    LET free == { i \in 1 .. Len(static_endpoints) : static_endpoints[i] \notin leased }
    IN  IF free = {} THEN None
        ELSE Some(static_endpoints[CHOOSE i \in free : \A j \in free : j <= i])
GetStaticEndpoint(static_endpoints, leased) ==
    LET free == { i \in 1 .. Len(static_endpoints) : static_endpoints[i] \notin leased }
    IN  IF free = {} THEN None
        ELSE Some(static_endpoints[CHOOSE i \in free : \A j \in free : i <= j])

\* `if self.pool.rotating_endpoint:` / `if self.pool.static_endpoints:`
RotatingConfiguredAlways(pool) == TRUE
RotatingConfigured(pool) == Truthy(pool.rotating_endpoint)
StaticConfigured(pool) == pool.static_endpoints # <<>>

Call(m, op, outcome, endpoint, before, after) ==
    [mgr |-> m, op |-> op, outcome |-> outcome, endpoint |-> endpoint,
     permits_before |-> before, permits_after |-> after,
     leased_before |-> p_leased,
     leased_after |-> IF op = "static" /\ outcome = "returned"
                      THEN p_leased \cup {endpoint[1]} ELSE p_leased]

\* The leased set the scan of _get_static_endpoint reads in a call on manager
\* m: ProxyManager._static_endpoint_pool, the one set of the class, as it is
\* when the permit is granted, since acquire_static has no await between
\* `await self.semaphore.acquire()` and `self._static_endpoint_pool.add`.
LeasedAtScanStale(m) ==
    IF p_calls = <<>> THEN p_leased ELSE p_calls[Len(p_calls)].leased_before
LeasedAtScanOwn(m) ==
    { p_calls[i].endpoint[1] : i \in { j \in DOMAIN p_calls :
          p_calls[j].mgr = m /\ p_calls[j].op = "static"
                            /\ p_calls[j].outcome = "returned" } }
LeasedAtScan(m) == p_leased

ProxyIdle ==
    /\ p_pool = <<>>
    /\ p_value = <<>>
    /\ p_leased = {}
    /\ p_calls = <<>>
    /\ p_made = <<>>

\* ProxyPool(**args): the dataclass __init__ stores the fields and runs
\* __post_init__, whose ValueError leaves the caller without a pool.
NewProxyPool(args) ==
    /\ Len(p_made) < MaxPools
    /\ p_made' = Append(p_made,
          IF ProxyPoolValid(args)
          THEN [args |-> args, raised |-> "none", pool |-> Some(args)]
          ELSE [args |-> args, raised |-> "ValueError", pool |-> None])
    /\ UNCHANGED <<p_pool, p_value, p_leased, p_calls>>
    /\ UNCHANGED notProxy

\* ProxyManager.__init__
NewProxyManager(pool) ==
    /\ p_pool' = Append(p_pool, pool)
    /\ p_value' = Append(p_value, pool.max_connections)
    /\ UNCHANGED <<p_leased, p_calls, p_made>>
    /\ UNCHANGED notProxy

\* ProxyManager.acquire_rotating on manager m.
AcquireRotating(m) ==
    /\ Len(p_calls) < MaxCalls
    /\ LET pool == p_pool[m]
           sem == SemaphoreAcquire(p_value[m])
       IN  IF RotatingConfigured(pool)
           THEN /\ p_value' = [p_value EXCEPT ![m] = sem.value]
                /\ p_calls' = Append(p_calls,
                       IF sem.granted
                       THEN Call(m, "rotating", "returned", pool.rotating_endpoint,
                                 p_value[m], sem.value)
                       ELSE Call(m, "rotating", "suspended", None,
                                 p_value[m], sem.value))
           ELSE /\ p_calls' = Append(p_calls,
                       Call(m, "rotating", "RuntimeError", None, p_value[m], p_value[m]))
                /\ UNCHANGED p_value
    /\ UNCHANGED <<p_pool, p_leased, p_made>>
    /\ UNCHANGED notProxy

\* ProxyManager.acquire_static on manager m. Nothing awaits between the
\* permit grant and the add to the leased set.
AcquireStatic(m) ==
    /\ Len(p_calls) < MaxCalls
    /\ LET pool == p_pool[m]
           sem == SemaphoreAcquire(p_value[m])
           endpoint == GetStaticEndpoint(pool.static_endpoints, LeasedAtScan(m))
       IN  IF StaticConfigured(pool)
           THEN /\ p_value' = [p_value EXCEPT ![m] = sem.value]
                /\ IF ~sem.granted
                   THEN /\ p_calls' = Append(p_calls,
                               Call(m, "static", "suspended", None, p_value[m], sem.value))
                        /\ UNCHANGED p_leased
                   ELSE IF IsNone(endpoint)
                   THEN /\ p_calls' = Append(p_calls,
                               Call(m, "static", "ProxyError", None, p_value[m], sem.value))
                        /\ UNCHANGED p_leased
                   ELSE /\ p_calls' = Append(p_calls,
                               Call(m, "static", "returned", endpoint, p_value[m], sem.value))
                        /\ p_leased' = p_leased \cup {endpoint[1]}
           ELSE /\ p_calls' = Append(p_calls,
                       Call(m, "static", "RuntimeError", None, p_value[m], p_value[m]))
                /\ UNCHANGED <<p_value, p_leased>>
    /\ UNCHANGED <<p_pool, p_made>>
    /\ UNCHANGED notProxy

ProxyNext ==
    \/ \E m \in DOMAIN p_pool : AcquireRotating(m)
    \/ \E m \in DOMAIN p_pool : AcquireStatic(m)

\* Callers constructing ProxyPools from whatever arguments.
PoolNext == \E args \in PoolArgs : NewProxyPool(args)

\* Several ProxyManagers of one process, built from the same ProxyPool.
ManagersNext ==
    \/ \E pool \in ProxyPools :
          /\ Len(p_pool) < MaxManagers
          /\ p_pool # <<>> => pool = p_pool[1]
          /\ NewProxyManager(pool)
    \/ \E m \in DOMAIN p_pool : AcquireStatic(m)

\* The pools that have static endpoints only.
StaticPools == { pool \in ProxyPools : pool.rotating_endpoint = None }

\* Several ProxyManagers of one process, each built from whichever of them.
CrossPoolNext ==
    \/ \E pool \in StaticPools :
          /\ Len(p_pool) < MaxManagers
          /\ NewProxyManager(pool)
    \/ \E m \in DOMAIN p_pool : AcquireStatic(m)

\* ================================================================= runner
\* SpiderMode, and what a spider class can carry as MODE: one of the three, a
\* string that is none of them, or nothing (getattr's default None).
SpiderModes == {"browser", "http", "hybrid"}
ModeChoices == SpiderModes \cup {"crawl", "None"}

SpiderConfigs == [browser : BOOLEAN, http : BOOLEAN, proxy_pool : BOOLEAN]

\* One call of scrape: the async generator and the spider it builds.
IdleExec ==
    [mode          |-> "None",     \* spider_cls.MODE
     phase         |-> "idle",     \* idle, BUILD, RUN, CLEANUP, DONE, FAILED
     pc            |-> "-",        \* where in the phase the generator stands
     spider        |-> FALSE,      \* _build_spider returned a spider
     browser_client |-> "None",    \* None, open, closed
     http_client   |-> "None",     \* None, open, closed, close_failed
     proxy_manager |-> FALSE,      \* a ProxyManager was constructed
     manager       |-> 0,          \* which one: its index in p_pool, 0 for none
     browser_id    |-> <<>>,       \* which BrowserClient object the spider holds
     http_id       |-> <<>>,       \* which HttpClient object the spider holds
     closed_ids    |-> {},         \* the client objects this call's _cleanup closed
     run_invoked   |-> FALSE,      \* spider.run(**params) was called
     produced      |-> 0,          \* records the spider's run has yielded
     received      |-> 0,          \* records the consumer has been handed
     records_out   |-> <<>>,       \* the records the spider's run yielded, in order
     records_in    |-> <<>>,       \* the records the consumer was handed, in order
     pending       |-> "none",     \* the exception in flight while finally runs
     cleanup_error |-> "none",     \* the exception _cleanup raised
     browser_close_failed |-> FALSE, \* a step inside BrowserClient.close failed
     raised        |-> None,       \* the error that reached scrape's caller
     cleanup_calls |-> 0,          \* calls of self._cleanup
     browser_close_calls |-> 0,    \* calls of spider.browser_client.close
     http_close_calls |-> 0,       \* calls of spider.http_client.close
     phase_log     |-> <<>>]       \* the phases entered, in order

\* The WeaverError scrape raises. `cause` is __cause__, set by `raise ... from
\* e` alone; `context` is __context__, the exception that was being handled
\* when the raise statement ran.
WeaverError(stage, cause, context) ==
    Some([type |-> "WeaverError", stage |-> stage, cause |-> cause, context |-> context])

Enter(x, phase, pc) ==
    [x EXCEPT !.phase = phase, !.pc = pc, !.phase_log = Append(@, phase)]

RunnerIdle ==
    /\ spider_config = [browser |-> FALSE, http |-> FALSE, proxy_pool |-> FALSE]
    /\ r_exec = <<>>

\* The consumer calls scrape(spider_cls) and asks for the first record: the
\* generator body starts, at _build_spider.
Scrape(e, mode) ==
    /\ r_exec[e].phase = "idle"
    /\ r_exec' = [r_exec EXCEPT ![e] = Enter([@ EXCEPT !.mode = mode], "BUILD", "-")]
    /\ UNCHANGED spider_config
    /\ UNCHANGED notRunner

\* BaseSpider.__init__ refuses a spider that got neither client.
SpiderInitRaises(mode, browser_client, http_client) ==
    browser_client = "None" /\ http_client = "None"

\* `mode not in get_args(SpiderMode)`
ModeIsValidAny(mode) == TRUE
ModeIsValid(mode) == mode \in SpiderModes

\* `if mode in ("browser", "hybrid")` / `if mode in ("http", "hybrid")`
ModeNeedsBrowserAlways(mode) == TRUE
ModeNeedsBrowser(mode) == mode \in {"browser", "hybrid"}
ModeNeedsHttp(mode) == mode \in {"http", "hybrid"}

\* The ProxyPool a SpiderConfig carries when it carries one.
RunnerProxyPool ==
    [max_connections |-> 1, rotating_endpoint |-> Some("rot"),
     static_endpoints |-> <<"e1", "e2">>]

\* The client objects of a kind the scrape calls have constructed so far.
ClientsBuilt(kind, execs) ==
    { id \in { execs[e].browser_id : e \in DOMAIN execs }
                \cup { execs[e].http_id : e \in DOMAIN execs } :
        id # <<>> /\ id[1] = kind }

\* `await BrowserClient.create(cfg)` / `HttpClient(cfg)` in _build_browser and
\* _build_http: each call constructs an object of its own; SpiderRunner
\* stores none on self.
RunnerClient(kind, execs) == <<kind, 1>>
NewClient(kind, execs) == <<kind, Cardinality(ClientsBuilt(kind, execs)) + 1>>

\* SpiderRunner._build_spider, and what scrape does with its result: the
\* spider's run is entered, or the build error is wrapped and raised.
\* `fail` is the constructor that fails, if one does.
BuildSpider(e, fail) ==
    /\ r_exec[e].phase = "BUILD"
    /\ LET x == r_exec[e]
           valid == ModeIsValid(x.mode)
           \* _build_proxy: a new ProxyManager whenever a pool is configured
           proxy == valid /\ spider_config.proxy_pool
           \* _build_browser / _build_http return None without a config
           wants_browser == valid /\ ModeNeedsBrowser(x.mode)
                                  /\ spider_config.browser
           browser == IF wants_browser /\ fail # "browser" THEN "open" ELSE "None"
           browser_raised == wants_browser /\ fail = "browser"
           wants_http == valid /\ ~browser_raised /\ ModeNeedsHttp(x.mode)
                               /\ spider_config.http
           http == IF wants_http /\ fail # "http" THEN "open" ELSE "None"
           http_raised == wants_http /\ fail = "http"
           \* spider_cls(...) itself raises: a class that is still abstract
           \* (TypeError), or an __init__ of the subclass that raises
           spider_raised == fail = "spider"
           raised == \/ ~valid
                     \/ browser_raised
                     \/ http_raised
                     \/ spider_raised
                     \/ SpiderInitRaises(x.mode, browser, http)
           error == IF ~valid THEN "SpiderError"
                    ELSE IF browser_raised THEN "BrowserClientError"
                    ELSE IF http_raised THEN "HttpClientError"
                    ELSE IF spider_raised THEN "TypeError"
                    ELSE "SpiderError"
           built == [x EXCEPT !.proxy_manager = proxy,
                              !.manager = IF proxy THEN Len(p_pool) + 1 ELSE 0,
                              !.browser_client = browser,
                              !.http_client = http,
                              !.browser_id = IF browser = "open"
                                             THEN NewClient("browser", r_exec)
                                             ELSE <<>>,
                              !.http_id = IF http = "open"
                                          THEN NewClient("http", r_exec)
                                          ELSE <<>>]
       IN  /\ fail = "browser" => wants_browser
           /\ fail = "http" => wants_http
           /\ fail = "spider" => valid
           /\ r_exec' = [r_exec EXCEPT ![e] =
                 IF raised
                 THEN Enter([built EXCEPT !.raised = WeaverError("build", None, Some(error))],
                            "FAILED", "-")
                 ELSE Enter([built EXCEPT !.spider = TRUE, !.run_invoked = TRUE],
                            "RUN", "awaiting_task")]
           /\ IF proxy
              THEN /\ p_pool' = Append(p_pool, RunnerProxyPool)
                   /\ p_value' = Append(p_value, RunnerProxyPool.max_connections)
              ELSE UNCHANGED <<p_pool, p_value>>
    /\ UNCHANGED <<p_leased, p_calls, p_made>>
    /\ UNCHANGED spider_config
    /\ UNCHANGED <<httpVars, browserVars>>

\* What a spider can yield.
Records == {"a", "b"}

\* `yield record` in the body of `async for record in spider.run(**params)`:
\* the record just taken from the task is what the consumer is handed next.
ForwardNewestFirst(records_in, record) == <<record>> \o records_in
Forward(records_in, record) == Append(records_in, record)

\* The spider's run yields a record and scrape yields it on to the consumer;
\* nothing awaits between the two.
TaskYield(e, record) ==
    /\ r_exec[e].phase = "RUN" /\ r_exec[e].pc = "awaiting_task"
    /\ r_exec[e].produced < MaxRecords
    /\ r_exec' = [r_exec EXCEPT ![e].produced = @ + 1, ![e].received = @ + 1,
                                ![e].records_out = Append(@, record),
                                ![e].records_in = Forward(@, record),
                                ![e].pc = "yielded"]
    /\ UNCHANGED spider_config
    /\ UNCHANGED notRunner

\* The consumer asks for the next record.
ConsumerNext(e) ==
    /\ r_exec[e].phase = "RUN" /\ r_exec[e].pc = "yielded"
    /\ r_exec' = [r_exec EXCEPT ![e].pc = "awaiting_task"]
    /\ UNCHANGED spider_config
    /\ UNCHANGED notRunner

\* The consumer stops iterating: the generator stays suspended at its yield.
ConsumerAbandon(e) ==
    /\ r_exec[e].phase = "RUN" /\ r_exec[e].pc = "yielded"
    /\ r_exec' = [r_exec EXCEPT ![e].pc = "abandoned"]
    /\ UNCHANGED spider_config
    /\ UNCHANGED notRunner

\* How the try statement around the run is left: the finally clause runs
\* self._cleanup whatever ended the try body.
AfterRunOnlyOnSuccess(x, pending) ==
    IF pending = "none"
    THEN Enter([x EXCEPT !.pending = pending], "CLEANUP", "close_browser")
    ELSE Enter([x EXCEPT !.pending = pending, !.raised = WeaverError("run", Some("task"), Some("task"))],
               "FAILED", "-")
AfterRun(x, pending) ==
    Enter([x EXCEPT !.pending = pending], "CLEANUP", "close_browser")

\* The abandoned generator is closed (aclose, by the consumer, by the event
\* loop's asyncgen finalizer or by shutdown_asyncgens): GeneratorExit is
\* thrown in at the yield, no except clause takes it, the finally runs.
Aclose(e) ==
    /\ r_exec[e].phase = "RUN" /\ r_exec[e].pc = "abandoned"
    /\ r_exec' = [r_exec EXCEPT ![e] = AfterRun(@, "GeneratorExit")]
    /\ UNCHANGED spider_config
    /\ UNCHANGED notRunner

\* The spider's run is exhausted.
TaskFinish(e) ==
    /\ r_exec[e].phase = "RUN" /\ r_exec[e].pc = "awaiting_task"
    /\ r_exec' = [r_exec EXCEPT ![e] = AfterRun(@, "none")]
    /\ UNCHANGED spider_config
    /\ UNCHANGED notRunner

\* The spider's run raises: `except Exception` raises WeaverError from it.
TaskRaise(e) ==
    /\ r_exec[e].phase = "RUN" /\ r_exec[e].pc = "awaiting_task"
    /\ r_exec' = [r_exec EXCEPT ![e] = AfterRun(@, "WeaverError")]
    /\ UNCHANGED spider_config
    /\ UNCHANGED notRunner

\* BrowserClient.close catches every Exception of its steps: it raises
\* nothing to _cleanup.
BrowserClientCloseRaisesThrough(step_failed) == step_failed
BrowserClientCloseRaises(step_failed) == FALSE

\* SpiderRunner._cleanup, first try statement: close the browser client.
\* `step_failed`: a step inside BrowserClient.close fails.
CleanupBrowser(e, step_failed) ==
    /\ r_exec[e].phase = "CLEANUP" /\ r_exec[e].pc = "close_browser"
    /\ LET x == [r_exec[e] EXCEPT !.cleanup_calls = @ + 1] IN
       r_exec' = [r_exec EXCEPT ![e] =
          IF x.browser_client = "None"
          THEN [x EXCEPT !.pc = "close_http"]
          ELSE LET y == [x EXCEPT !.browser_close_calls = @ + 1,
                                  !.browser_client = "closed",
                                  !.closed_ids = @ \cup {x.browser_id},
                                  !.browser_close_failed = step_failed]
               IN  IF BrowserClientCloseRaises(step_failed)
                   THEN [y EXCEPT !.cleanup_error = "BrowserClientError", !.pc = "end"]
                   ELSE [y EXCEPT !.pc = "close_http"]]
    /\ step_failed => r_exec[e].browser_client # "None"
    /\ UNCHANGED spider_config
    /\ UNCHANGED notRunner

\* SpiderRunner._cleanup, second try statement: close the HTTP client.
\* `close_failed`: session.close raises.
CleanupHttp(e, close_failed) ==
    /\ r_exec[e].phase = "CLEANUP" /\ r_exec[e].pc = "close_http"
    /\ close_failed => r_exec[e].http_client # "None"
    /\ r_exec' = [r_exec EXCEPT ![e] =
          IF @.http_client = "None"
          THEN [@ EXCEPT !.pc = "end"]
          ELSE IF close_failed
          THEN [@ EXCEPT !.http_close_calls = @ + 1, !.http_client = "close_failed",
                         !.closed_ids = @ \cup {r_exec[e].http_id},
                         !.cleanup_error = "HttpClientError", !.pc = "end"]
          ELSE [@ EXCEPT !.http_close_calls = @ + 1, !.http_client = "closed",
                         !.closed_ids = @ \cup {r_exec[e].http_id},
                         !.pc = "end"]]
    /\ UNCHANGED spider_config
    /\ UNCHANGED notRunner

\* The finally clause is left and the generator ends: an error of _cleanup is
\* wrapped and raised in place of whatever was in flight; otherwise the
\* exception in flight goes on (GeneratorExit ends the aclose without error).
ScrapeEnd(e) ==
    /\ r_exec[e].phase = "CLEANUP" /\ r_exec[e].pc = "end"
    /\ r_exec' = [r_exec EXCEPT ![e] =
          IF @.cleanup_error # "none"
          THEN Enter([@ EXCEPT !.raised = WeaverError("cleanup", None,
                                                       Some(r_exec[e].cleanup_error))],
                     "FAILED", "-")
          ELSE IF @.pending = "WeaverError"
          THEN Enter([@ EXCEPT !.raised = WeaverError("run", Some("task"), Some("task"))], "FAILED", "-")
          ELSE Enter(@, "DONE", "-")]
    /\ UNCHANGED spider_config
    /\ UNCHANGED notRunner

RunnerNext ==
    \/ \E e \in DOMAIN r_exec, mode \in ModeChoices : Scrape(e, mode)
    \/ \E e \in DOMAIN r_exec, fail \in {"none", "browser", "http", "spider"} :
          BuildSpider(e, fail)
    \/ \E e \in DOMAIN r_exec, record \in Records : TaskYield(e, record)
    \/ \E e \in DOMAIN r_exec : ConsumerNext(e)
    \/ \E e \in DOMAIN r_exec : ConsumerAbandon(e)
    \/ \E e \in DOMAIN r_exec : Aclose(e)
    \/ \E e \in DOMAIN r_exec : TaskFinish(e)
    \/ \E e \in DOMAIN r_exec : TaskRaise(e)
    \/ \E e \in DOMAIN r_exec, step_failed \in BOOLEAN : CleanupBrowser(e, step_failed)
    \/ \E e \in DOMAIN r_exec, close_failed \in BOOLEAN : CleanupHttp(e, close_failed)
    \/ \E e \in DOMAIN r_exec : ScrapeEnd(e)

\* The spider of execution e, in its run, asks its ProxyManager for an
\* endpoint.
TaskAcquire(e, op) ==
    /\ r_exec[e].phase = "RUN"
    /\ r_exec[e].manager # 0
    /\ IF op = "rotating" THEN AcquireRotating(r_exec[e].manager)
       ELSE AcquireStatic(r_exec[e].manager)

\* Scrape calls on one SpiderRunner, up to the point where their spiders
\* run and use their ProxyManagers.
ScrapesNext ==
    \/ \E e \in DOMAIN r_exec, mode \in ModeChoices : Scrape(e, mode)
    \/ \E e \in DOMAIN r_exec, fail \in {"none", "browser", "http", "spider"} :
          BuildSpider(e, fail)
    \/ \E e \in DOMAIN r_exec, op \in {"rotating", "static"} : TaskAcquire(e, op)

\* Scrape calls on one SpiderRunner from build to the end of cleanup, their
\* spiders' runs ending or raising without a record.
LifecyclesNext ==
    \/ \E e \in DOMAIN r_exec, mode \in ModeChoices : Scrape(e, mode)
    \/ \E e \in DOMAIN r_exec, fail \in {"none", "browser", "http", "spider"} :
          BuildSpider(e, fail)
    \/ \E e \in DOMAIN r_exec : TaskFinish(e)
    \/ \E e \in DOMAIN r_exec : TaskRaise(e)
    \/ \E e \in DOMAIN r_exec, step_failed \in BOOLEAN : CleanupBrowser(e, step_failed)
    \/ \E e \in DOMAIN r_exec, close_failed \in BOOLEAN : CleanupHttp(e, close_failed)
    \/ \E e \in DOMAIN r_exec : ScrapeEnd(e)

\* ================================================================ browser
\* BrowserOverrideConfig: the defaults, with either value of webdriver.
OverrideConfigs ==
    [window_history : {10}, languages : {<<"en-US", "en">>}, language : {"en-US"},
     platform : {"Win32"}, webdriver : BOOLEAN]

\* What the engine reports in a document no init script has touched: an
\* automated browser says navigator.webdriver = true and history.length = 1.
EngineDefault ==
    [webdriver |-> TRUE, history_length |-> 1, languages |-> <<"en-US">>,
     platform |-> "Linux x86_64"]

\* json.dumps(v): v spelled as JSON, which is a JavaScript literal (Python's
\* own spelling, False for false, would not be one).
JsonDumps(v) == [syntax |-> "json", of |-> v]

\* The getter `() => <literal>` of an init script, evaluated by the engine:
\* the value, or None when the literal is no JavaScript.
JsGetter(literal) == IF literal.syntax = "json" THEN Some(literal.of) ELSE None

\* BrowserOverrideService._set_webdriver, _set_window_history_length,
\* _set_languages, _set_platform: the init script each one registers.
SetWebdriver(config) == [prop |-> "webdriver", literal |-> JsonDumps(config.webdriver)]
SetWindowHistoryLength(config) ==
    [prop |-> "history_length", literal |-> JsonDumps(config.window_history)]
SetLanguages(config) == [prop |-> "languages", literal |-> JsonDumps(config.languages)]
SetPlatform(config) == [prop |-> "platform", literal |-> JsonDumps(config.platform)]

\* BrowserOverrideService.inject_overrides: the scripts in the order they are
\* registered.
InjectOverridesNoWebdriver(config) ==
    << SetWindowHistoryLength(config), SetLanguages(config), SetPlatform(config) >>
InjectOverrides(config) ==
    << SetWebdriver(config), SetWindowHistoryLength(config), SetLanguages(config),
       SetPlatform(config) >>

\* The engine's context.new_page(): a page showing its initial about:blank
\* document, with no init script registered.
EngineNewPage(c) ==
    [context |-> c, init_scripts |-> <<>>, returned |-> FALSE,
     doc |-> [n |-> 0, applied |-> <<>>, site_scripts_ran |-> FALSE]]

\* The engine loads a document into the page: the init scripts registered by
\* then are evaluated in it, in order, before the document's own scripts.
EngineLoadDocument(page) ==
    [page EXCEPT !.doc = [n |-> @.n + 1, applied |-> page.init_scripts,
                          site_scripts_ran |-> TRUE]]

\* page.evaluate of a navigator / history property in the current document:
\* the last init script that redefined it decides, else the engine's default.
Evaluate(page, prop) ==
    LET hits == { i \in 1 .. Len(page.doc.applied) : page.doc.applied[i].prop = prop }
    IN  IF hits = {} THEN Some(EngineDefault[prop])
        ELSE JsGetter(page.doc.applied[CHOOSE i \in hits : \A j \in hits : j <= i].literal)

\* What BrowserClient.create leaves behind: a started driver and a launched
\* browser with no context.
EngineLaunched == [contexts |-> <<>>, browser |-> "open", playwright |-> "running"]

BrowserIdle ==
    /\ b_config = [window_history |-> 10, languages |-> <<"en-US", "en">>,
                   language |-> "en-US", platform |-> "Win32", webdriver |-> FALSE]
    /\ b_open_contexts = <<>>
    /\ b_engine = EngineLaunched
    /\ b_pages = <<>>
    /\ b_calls = <<>>

\* BrowserClient.new_context: the context is tracked once the engine made it;
\* an error of the engine leaves the call as it is.
NewContext(ok) ==
    /\ Len(b_calls) < MaxContexts + MaxPages
    /\ Len(b_engine.contexts) < MaxContexts
    /\ ok => b_engine.browser = "open"
    /\ IF ok
       THEN LET c == Len(b_engine.contexts) + 1 IN
            /\ b_engine' = [b_engine EXCEPT !.contexts = Append(@, "open")]
            /\ b_open_contexts' = Append(b_open_contexts, c)
            /\ b_calls' = Append(b_calls, [op |-> "new_context", raised |-> "none",
                                           returned |-> Some(c)])
       ELSE /\ b_calls' = Append(b_calls, [op |-> "new_context", raised |-> "Error",
                                           returned |-> None])
            /\ UNCHANGED <<b_open_contexts, b_engine>>
    /\ UNCHANGED <<b_config, b_pages>>
    /\ UNCHANGED notBrowser

\* The steps of new_page that can fail: context.new_page() and each of the
\* add_init_script calls of inject_overrides, in order.
NewPageSteps == << "new_page", "webdriver", "history_length", "languages", "platform" >>
StepIndex(step) ==
    IF step = "none" THEN Len(NewPageSteps) + 1
    ELSE CHOOSE i \in 1 .. Len(NewPageSteps) : NewPageSteps[i] = step

\* BrowserClient.new_page(context, config): the page is made, the override
\* scripts are registered on it one after the other, the page is returned.
\* `fail` names the step whose engine call raises, if any: the scripts before
\* it stay registered, the error leaves new_page and no page is returned.
NewPage(c, fail) ==
    /\ Len(b_calls) < MaxContexts + MaxPages
    /\ Len(b_pages) < MaxPages
    /\ b_engine.contexts[c] # "open" => fail = "new_page"
    /\ LET scripts == InjectOverrides(b_config)
           upto == StepIndex(fail) - 2
           registered == [i \in 1 .. Min(upto, Len(scripts)) |-> scripts[i]]
           page == [EngineNewPage(c) EXCEPT !.init_scripts = registered,
                                            !.returned = (fail = "none")]
       IN  /\ b_pages' = IF fail = "new_page" THEN b_pages ELSE Append(b_pages, page)
           /\ b_calls' = Append(b_calls,
                 IF fail = "none"
                 THEN [op |-> "new_page", raised |-> "none",
                       returned |-> Some(Len(b_pages) + 1)]
                 ELSE [op |-> "new_page", raised |-> "Error", returned |-> None])
    /\ UNCHANGED <<b_config, b_open_contexts, b_engine>>
    /\ UNCHANGED notBrowser

\* The caller navigates a page it was handed (goto, reload, a link).
Navigate(p) ==
    /\ b_pages[p].returned
    /\ b_pages[p].doc.n < MaxNavigations
    /\ b_engine.contexts[b_pages[p].context] = "open"
    /\ b_pages' = [b_pages EXCEPT ![p] = EngineLoadDocument(@)]
    /\ UNCHANGED <<b_config, b_open_contexts, b_engine, b_calls>>
    /\ UNCHANGED notBrowser

\* The engine calls BrowserClient.close has in its try body, in program
\* order: context.close() for each tracked context, browser.close(),
\* playwright.stop().
CloseCalls(tracked) ==
    [i \in 1 .. Len(tracked) + 2 |->
        IF i <= Len(tracked) THEN [call |-> "context.close", target |-> tracked[i]]
        ELSE IF i = Len(tracked) + 1 THEN [call |-> "browser.close", target |-> 0]
        ELSE [call |-> "playwright.stop", target |-> 0]]

\* The engine calls one BrowserClient.close makes when call number `fail`
\* raises (0: none does): one try statement holds them all, so the first
\* that raises ends the body and the calls after it are not made.
CloseStepsKeepGoing(tracked, fail) ==
    LET all == CloseCalls(tracked)
    IN  [i \in 1 .. Len(all) |->
            [call |-> all[i].call, target |-> all[i].target, ok |-> i # fail]]
CloseSteps(tracked, fail) ==
    LET all == CloseCalls(tracked)
        n == IF fail = 0 THEN Len(all) ELSE fail
    IN  [i \in 1 .. n |->
            [call |-> all[i].call, target |-> all[i].target, ok |-> i # fail]]

\* What the engine is after the calls `steps`: a context is closed by its own
\* close or with its browser, the driver is stopped by stop.
EngineAfter(engine, steps) ==
    LET done(call) == \E i \in DOMAIN steps : steps[i].call = call /\ steps[i].ok
        closed(c) == \E i \in DOMAIN steps :
                        /\ steps[i].call = "context.close"
                        /\ steps[i].target = c
                        /\ steps[i].ok
    IN  [contexts   |-> [c \in DOMAIN engine.contexts |->
                            IF closed(c) \/ done("browser.close") THEN "closed"
                            ELSE engine.contexts[c]],
         browser    |-> IF done("browser.close") THEN "closed" ELSE engine.browser,
         playwright |-> IF done("playwright.stop") THEN "stopped"
                        ELSE engine.playwright]

\* BrowserClient.close. `fail` is the number of the engine call that raises,
\* 0 when none does. _open_contexts is cleared once the loop over it is
\* through; `except Exception` logs whatever a step raised.
Close(fail) ==
    /\ Cardinality({ k \in DOMAIN b_calls : b_calls[k].op = "close" }) < MaxCloses
    /\ fail \in 0 .. Len(b_open_contexts) + 2
    /\ LET steps == CloseSteps(b_open_contexts, fail)
           looped == fail = 0 \/ fail > Len(b_open_contexts)
       IN  /\ b_engine' = EngineAfter(b_engine, steps)
           /\ b_open_contexts' = IF looped THEN <<>> ELSE b_open_contexts
           /\ b_calls' = Append(b_calls,
                 [op |-> "close",
                  raised |-> IF BrowserClientCloseRaises(fail # 0) THEN "Error"
                             ELSE "none",
                  returned |-> None,
                  tracked |-> b_open_contexts,
                  steps |-> steps])
    /\ UNCHANGED <<b_config, b_pages>>
    /\ UNCHANGED notBrowser

\* The process before BrowserClient.create: no driver, no browser.
EngineAbsent == [contexts |-> <<>>, browser |-> "none", playwright |-> "none"]

\* The engine after BrowserClient.create in which step `fail` raised ("none":
\* neither did). create awaits _start_playwright, then _start_browser, with
\* no try around the two: a driver that started stays as it is when the
\* launch raises.
EngineAfterCreateStopped(fail) ==
    IF fail = "playwright" THEN EngineAbsent
    ELSE IF fail = "browser" THEN [EngineAbsent EXCEPT !.playwright = "stopped"]
    ELSE EngineLaunched
EngineAfterCreate(fail) ==
    IF fail = "playwright" THEN EngineAbsent
    ELSE IF fail = "browser" THEN [EngineAbsent EXCEPT !.playwright = "running"]
    ELSE EngineLaunched

\* BrowserClient.create(config). _start_playwright and _start_browser each
\* raise BrowserClientError for whatever the engine raised; the client is
\* constructed, and returned, only after both.
Create(fail) ==
    /\ b_engine = EngineAbsent
    /\ b_calls = <<>>
    /\ b_engine' = EngineAfterCreate(fail)
    /\ b_calls' = Append(b_calls,
          [op |-> "create",
           raised |-> IF fail = "none" THEN "none" ELSE "BrowserClientError",
           returned |-> IF fail = "none" THEN Some(1) ELSE None,
           failed_at |-> fail])
    /\ UNCHANGED <<b_config, b_open_contexts, b_pages>>
    /\ UNCHANGED notBrowser

\* A BrowserClient exists once create has returned one.
ClientExists ==
    \E k \in DOMAIN b_calls : b_calls[k].op = "create" /\ b_calls[k].returned # None

\* create, and then whatever can be called on the client it returned.
CreateNext ==
    \/ \E fail \in {"none", "playwright", "browser"} : Create(fail)
    \/ \E ok \in BOOLEAN : ClientExists /\ NewContext(ok)
    \/ \E fail \in 0 .. MaxContexts + 2 : ClientExists /\ Close(fail)

BrowserNext ==
    \/ \E ok \in BOOLEAN : NewContext(ok)
    \/ \E c \in DOMAIN b_engine.contexts, fail \in {"none"} \cup Range(NewPageSteps) :
          NewPage(c, fail)
    \/ \E p \in DOMAIN b_pages : Navigate(p)

\* The life of a BrowserClient's contexts: opened, tracked, closed.
CloseNext ==
    \/ \E ok \in BOOLEAN : NewContext(ok)
    \/ \E fail \in 0 .. MaxContexts + 2 : Close(fail)

\* ========================================================= specifications
\* The retry loop of HttpClient.request_raw / request.
HttpInit == HttpIdle /\ ProxyIdle /\ RunnerIdle /\ BrowserIdle
HttpSpec == HttpInit /\ [][HttpNext]_vars

\* The merge of per-request and session configuration.
KwargsSpec == HttpInit /\ [][KwargsNext]_vars

\* One HttpClient: a request on it, and close called on it more than once.
SessionSpec == HttpInit /\ [][SessionNext]_vars

\* One ProxyManager over any valid pool, in a process with nothing leased.
ProxyInit ==
    /\ HttpIdle
    /\ RunnerIdle
    /\ BrowserIdle
    /\ \E pool \in ProxyPools :
          /\ p_pool = <<pool>>
          /\ p_value = <<pool.max_connections>>
    /\ p_leased = {}
    /\ p_calls = <<>>
    /\ p_made = <<>>
ProxySpec == ProxyInit /\ [][ProxyNext]_vars

\* A process in which no ProxyPool has been constructed yet.
PoolSpec == HttpInit /\ [][PoolNext]_vars

\* A process in which no ProxyManager exists yet and nothing is leased.
ManagersSpec == HttpInit /\ [][ManagersNext]_vars

\* The same, the managers being built from different pools.
CrossPoolSpec == HttpInit /\ [][CrossPoolNext]_vars

\* One SpiderRunner over any SpiderConfig, and one scrape on it.
Init ==
    /\ HttpIdle
    /\ ProxyIdle
    /\ BrowserIdle
    /\ spider_config \in SpiderConfigs
    /\ r_exec = <<IdleExec>>
Next == RunnerNext
Spec == Init /\ [][Next]_vars

\* One SpiderRunner over any SpiderConfig, and two scrapes on it.
ScrapesInit ==
    /\ HttpIdle
    /\ ProxyIdle
    /\ BrowserIdle
    /\ spider_config \in SpiderConfigs
    /\ r_exec = <<IdleExec, IdleExec>>
ScrapesSpec == ScrapesInit /\ [][ScrapesNext]_vars

\* One BrowserClient, launched, with any BrowserOverrideConfig for its pages.
BrowserInit ==
    /\ HttpIdle
    /\ ProxyIdle
    /\ RunnerIdle
    /\ b_config \in OverrideConfigs
    /\ b_open_contexts = <<>>
    /\ b_engine = EngineLaunched
    /\ b_pages = <<>>
    /\ b_calls = <<>>
BrowserSpec == BrowserInit /\ [][BrowserNext]_vars

\* One BrowserClient, launched: contexts are opened on it and it is closed,
\* more than once, with any of the engine's calls failing.
CloseSpec == BrowserInit /\ [][CloseNext]_vars

\* Two scrape calls on one SpiderRunner, each through its whole life, in any
\* interleaving.
LifecyclesSpec == ScrapesInit /\ [][LifecyclesNext]_vars

\* A process in which BrowserClient.create has not been called yet.
CreateInit ==
    /\ HttpIdle
    /\ ProxyIdle
    /\ RunnerIdle
    /\ b_config \in OverrideConfigs
    /\ b_open_contexts = <<>>
    /\ b_engine = EngineAbsent
    /\ b_pages = <<>>
    /\ b_calls = <<>>
CreateSpec == CreateInit /\ [][CreateNext]_vars

\* ================================================================ claims

\* Every attempt so far failed with a transport error or a timeout.
AllRetryable ==
    \A i \in 1 .. Len(h_outcomes) :
        h_outcomes[i].kind \in {"RequestsError", "TimeoutError"}

\* C1: with max_retries = N >= 0 and every attempt failing with a retryable
\* transport error or timeout, the call makes exactly N+1 attempts, sleeps
\* retry_delay * 2^i after failed attempt i for i = 0..N-1 and not after the
\* last one, and then raises the HttpClientError whose cause is the last
\* attempt's error.
C1_RetryExhaustion ==
    (h_pc # "idle" /\ h_config.max_retries >= 0 /\ AllRetryable) =>
        LET N == h_config.max_retries
            n == Len(h_outcomes)
        IN  /\ n <= N + 1
            /\ Len(h_sent) = n
            /\ h_sleeps = [i \in 1 .. Min(n, N) |-> h_config.retry_delay * (2 ^ (i - 1))]
            /\ n < N + 1 => h_pc = "running"
            /\ n = N + 1 =>
                  /\ h_pc = "raised"
                  /\ h_error.type = "HttpClientError"
                  /\ h_error.status_code = None
                  /\ h_error.cause = Some([type |-> h_outcomes[n].kind, at |-> N])

\* The retry budget is spent: N+1 failed attempts with N >= 2.
C1_Witness ==
    /\ h_pc = "raised"
    /\ AllRetryable
    /\ h_config.max_retries >= 2
    /\ Len(h_outcomes) = h_config.max_retries + 1
    /\ Len(h_sleeps) = h_config.max_retries

\* C2: a response with status >= 400 ends the call on the attempt that
\* received it: the HttpClientError carrying the status and the body is
\* raised, no later attempt exists and no sleep follows it.
C2_StatusErrorNotRetried ==
    \A i \in 1 .. Len(h_outcomes) :
        (h_outcomes[i].kind = "response" /\ h_outcomes[i].status >= 400) =>
            /\ i = Len(h_outcomes)
            /\ h_pc = "raised"
            /\ h_error.type = "HttpClientError"
            /\ h_error.status_code = Some(h_outcomes[i].status)
            /\ h_error.response_text = Some(h_outcomes[i].body)
            /\ Len(h_sleeps) = i - 1
            /\ Len(h_sent) = i

\* A status error on the first attempt, with retry budget left.
C2_Witness ==
    /\ Len(h_outcomes) = 1
    /\ h_outcomes[1].kind = "response"
    /\ h_outcomes[1].status = 400
    /\ h_config.max_retries >= 1
    /\ h_pc = "raised"

\* C9: for each of headers, cookies, timeout and impersonate, the value sent
\* is the RequestConfig's when that field is set (is not None) and the
\* HttpConfig's otherwise, whatever the other fields and extra_kwargs hold.
C9_FieldwiseMerge ==
    \A i \in 1 .. Len(h_sent) : \A f \in MergedFields :
        /\ h_config[f] = None => h_sent[i][f] = SessionConfig[f]
        /\ h_config[f] # None => h_sent[i][f] = h_config[f][1]

\* The spec's example and more: headers and timeout set (timeout to a falsy
\* 0), cookies and impersonate unset, extra_kwargs naming merged keys.
C9_Witness ==
    /\ Len(h_sent) = 1
    /\ h_config.headers = Some("{X:1}")
    /\ h_config.timeout = Some(0)
    /\ h_config.cookies = None
    /\ h_config.impersonate = None
    /\ "headers" \in DOMAIN h_config.extra_kwargs
    /\ h_sent[1].headers = "{X:1}"
    /\ h_sent[1].impersonate = "chrome"

\* The calls made on manager m, in order.
CallsOf(m) == SelectSeq(p_calls, LAMBDA c : c.mgr = m)

\* Manager m has only ever been asked for static endpoints, and nobody else
\* has leased anything.
OnlyStaticCalls(m) == \A i \in 1 .. Len(p_calls) : p_calls[i] = CallsOf(m)[i] /\ p_calls[i].op = "static"

\* C5 as stated: with K >= 1 static endpoints and any max_connections >= 1,
\* the first K acquire_static calls return pairwise distinct endpoints and
\* call K+1 raises ProxyError.
C5_AsStated ==
    \A m \in DOMAIN p_pool :
        LET K == Len(p_pool[m].static_endpoints)
            calls == CallsOf(m)
        IN  (K >= 1 /\ OnlyStaticCalls(m)) =>
              /\ \A i \in 1 .. Min(K, Len(calls)) : calls[i].outcome = "returned"
              /\ \A i, j \in 1 .. Min(K, Len(calls)) :
                    i # j => calls[i].endpoint # calls[j].endpoint
              /\ Len(calls) >= K + 1 => calls[K + 1].outcome = "ProxyError"

\* C5 amended: every acquire_static call takes a permit first, so of the calls
\* only the first max_connections get past the gate. The first
\* min(K, max_connections) calls return the configured endpoints in order
\* (pairwise distinct); call K+1 raises ProxyError when max_connections >= K+1;
\* every call after the first max_connections suspends and returns nothing.
C5_StaticUntilExhausted ==
    \A m \in DOMAIN p_pool :
        LET K == Len(p_pool[m].static_endpoints)
            M == p_pool[m].max_connections
            calls == CallsOf(m)
        IN  (K >= 1 /\ OnlyStaticCalls(m)) =>
              \A i \in 1 .. Len(calls) :
                  /\ (i <= K /\ i <= M) =>
                        /\ calls[i].outcome = "returned"
                        /\ calls[i].endpoint = Some(p_pool[m].static_endpoints[i])
                        /\ \A j \in 1 .. i - 1 : calls[j].endpoint # calls[i].endpoint
                  /\ (i > K /\ i <= M) => calls[i].outcome = "ProxyError"
                  /\ i > M => calls[i].outcome = "suspended"

\* K = 2 endpoints handed out and the third call refused, with permits to spare.
C5_Witness ==
    \E m \in DOMAIN p_pool :
        /\ Len(p_pool[m].static_endpoints) = 2
        /\ OnlyStaticCalls(m)
        /\ Len(p_calls) = 3
        /\ p_calls[1].outcome = "returned"
        /\ p_calls[2].outcome = "returned"
        /\ p_calls[3].outcome = "ProxyError"

\* C6: acquire_rotating on a pool with no rotating endpoint raises at once,
\* whatever the state of the permit gate: it neither waits for a permit nor
\* takes one.
C6_RotatingUnconfiguredFailsFast ==
    \A i \in 1 .. Len(p_calls) :
        (p_calls[i].op = "rotating" /\ p_pool[p_calls[i].mgr].rotating_endpoint = None) =>
            /\ p_calls[i].outcome = "RuntimeError"
            /\ p_calls[i].permits_after = p_calls[i].permits_before

\* Such a call made while no permit was free.
C6_Witness ==
    \E i \in 1 .. Len(p_calls) :
        /\ p_calls[i].op = "rotating"
        /\ p_pool[p_calls[i].mgr].rotating_endpoint = None
        /\ p_calls[i].permits_before = 0
        /\ p_calls[i].outcome = "RuntimeError"

\* The calls of manager m that were granted a permit.
Granted(m) ==
    { i \in 1 .. Len(p_calls) :
        /\ p_calls[i].mgr = m
        /\ p_calls[i].permits_after < p_calls[i].permits_before }

\* C7: on one ProxyManager the calls granted a permit never outnumber
\* max_connections, and a call made with no permit free has returned no
\* endpoint (no permit ever becomes free again).
C7_PermitsBounded ==
    \A m \in DOMAIN p_pool :
        /\ Cardinality(Granted(m)) <= p_pool[m].max_connections
        /\ p_value[m] = p_pool[m].max_connections - Cardinality(Granted(m))
        /\ \A i \in 1 .. Len(p_calls) :
              (p_calls[i].mgr = m /\ p_calls[i].outcome = "returned") =>
                  /\ i \in Granted(m)
                  /\ p_calls[i].permits_before > 0

\* All permits granted, through both kinds of call, and a later call suspended.
C7_Witness ==
    \E m \in DOMAIN p_pool :
        /\ p_pool[m].max_connections = 2
        /\ Cardinality(Granted(m)) = 2
        /\ \E i, j \in Granted(m) : p_calls[i].op = "rotating" /\ p_calls[j].op = "static"
        /\ \E i \in 1 .. Len(p_calls) : p_calls[i].outcome = "suspended"

\* C3: when the spider's run raised (after any number of records), each
\* client that was built has had its close called exactly once by the time
\* the WeaverError reaches scrape's caller, and never more than once.
C3_CleanupBeforeErrorPropagates ==
    \A e \in DOMAIN r_exec :
        LET x == r_exec[e] IN
        x.pending = "WeaverError" =>
            /\ x.browser_close_calls <= 1
            /\ x.http_close_calls <= 1
            /\ x.raised # None =>
                  /\ x.raised[1].type = "WeaverError"
                  /\ x.browser_close_calls = (IF x.browser_client = "None" THEN 0 ELSE 1)
                  /\ x.http_close_calls = (IF x.http_client = "None" THEN 0 ELSE 1)
                  /\ x.browser_client \in {"None", "closed"}
                  /\ x.http_client \in {"None", "closed", "close_failed"}

\* A hybrid spider raised after a record; both clients were closed and the
\* caller has the error.
C3_Witness ==
    \E e \in DOMAIN r_exec :
        /\ r_exec[e].pending = "WeaverError"
        /\ r_exec[e].received >= 1
        /\ r_exec[e].raised # None
        /\ r_exec[e].browser_close_calls = 1
        /\ r_exec[e].http_close_calls = 1

IsPrefix(s, t) == Len(s) <= Len(t) /\ \A i \in 1 .. Len(s) : s[i] = t[i]

\* C4: the phases of a scrape are BUILD, RUN, CLEANUP and then DONE or FAILED,
\* in that order (a failed build goes from BUILD to FAILED); a scrape that
\* entered RUN and has ended, by exhaustion, by an error of the task or by the
\* consumer abandoning the stream, has run _cleanup exactly once, and no
\* scrape runs it twice.
C4_CleanupExactlyOnce ==
    \A e \in DOMAIN r_exec :
        LET x == r_exec[e] IN
        /\ \/ IsPrefix(x.phase_log, <<"BUILD", "RUN", "CLEANUP", "DONE">>)
           \/ IsPrefix(x.phase_log, <<"BUILD", "RUN", "CLEANUP", "FAILED">>)
           \/ x.phase_log = <<"BUILD", "FAILED">>
        /\ x.cleanup_calls <= 1
        /\ (x.phase \in {"DONE", "FAILED"} /\ x.run_invoked) => x.cleanup_calls = 1
        /\ x.phase = "RUN" => x.cleanup_calls = 0

\* The consumer abandoned the stream, the generator was closed, and the
\* cleanup has run.
C4_Witness ==
    \E e \in DOMAIN r_exec :
        /\ r_exec[e].pending = "GeneratorExit"
        /\ r_exec[e].phase = "DONE"
        /\ r_exec[e].cleanup_calls = 1

\* C8 as stated: whenever the mode requires a client type that has no config,
\* the build fails and the spider's run is never invoked.
C8_AsStated ==
    \A e \in DOMAIN r_exec :
        LET x == r_exec[e]
            missing == \/ (x.mode \in {"browser", "hybrid"} /\ ~spider_config.browser)
                       \/ (x.mode \in {"http", "hybrid"} /\ ~spider_config.http)
        IN  (missing /\ x.phase \notin {"idle", "BUILD"}) =>
                /\ ~x.run_invoked
                /\ x.phase = "FAILED"
                /\ x.raised # None

\* C10 as stated: navigator.webdriver evaluated on the page new_page
\* returned, before any navigation, is the configured override value.
C10_AsStated ==
    \A p \in DOMAIN b_pages :
        (b_pages[p].returned /\ b_pages[p].doc.n = 0) =>
            Evaluate(b_pages[p], "webdriver") = Some(b_config.webdriver)

\* C10 amended: the override scripts are init scripts, which the engine runs
\* in the documents it loads after they were registered. On a page new_page
\* returned, every document loaded by a navigation evaluates
\* navigator.webdriver to the configured value and has run the overrides
\* before its own scripts; the initial about:blank document, made by
\* context.new_page() before the scripts were registered, runs no script of
\* its own and still shows the engine's default until the first navigation.
C10_OverrideFromFirstNavigation ==
    \A p \in DOMAIN b_pages :
        b_pages[p].returned =>
            /\ b_pages[p].doc.n >= 1 =>
                  /\ Evaluate(b_pages[p], "webdriver") = Some(b_config.webdriver)
                  /\ \E i \in 1 .. Len(b_pages[p].doc.applied) :
                        b_pages[p].doc.applied[i].prop = "webdriver"
            /\ b_pages[p].doc.n = 0 =>
                  /\ Evaluate(b_pages[p], "webdriver") = Some(EngineDefault.webdriver)
                  /\ ~b_pages[p].doc.site_scripts_ran

\* A returned page, navigated, whose configured webdriver value (false) is not
\* the engine's default.
C10_Witness ==
    \E p \in DOMAIN b_pages :
        /\ b_pages[p].returned
        /\ b_pages[p].doc.n >= 1
        /\ b_config.webdriver = FALSE
        /\ Evaluate(b_pages[p], "webdriver") = Some(FALSE)

\* C11 as stated: when a scrape has ended (DONE or FAILED), every browser
\* client and HTTP client it constructed has been closed, on every path,
\* a build that failed after a client was constructed included.
C11_AsStated ==
    \A e \in DOMAIN r_exec :
        r_exec[e].phase \in {"DONE", "FAILED"} =>
            /\ r_exec[e].browser_client # "open"
            /\ r_exec[e].http_client # "open"

\* C12 as stated: every error that reaches scrape's caller, from build, run
\* or cleanup, is a WeaverError that carries the original failure as its
\* cause (__cause__).
C12_AsStated ==
    \A e \in DOMAIN r_exec :
        r_exec[e].raised # None =>
            /\ r_exec[e].raised[1].type = "WeaverError"
            /\ r_exec[e].raised[1].cause # None

\* The calls of BrowserClient.close made so far.
CloseCallsMade == { k \in DOMAIN b_calls : b_calls[k].op = "close" }

\* C13: within a call of BrowserClient.close, browser.close() is called
\* only after context.close() has succeeded on every tracked context, and
\* playwright.stop() only after browser.close() has succeeded.
C13_CloseOrder ==
    \A k \in CloseCallsMade :
        LET st == b_calls[k].steps
            tr == b_calls[k].tracked
        IN  \A i \in DOMAIN st :
              /\ st[i].call = "browser.close" =>
                    \A t \in DOMAIN tr : \E j \in 1 .. i - 1 :
                        /\ st[j].call = "context.close"
                        /\ st[j].target = tr[t]
                        /\ st[j].ok
              /\ st[i].call = "playwright.stop" =>
                    \E j \in 1 .. i - 1 : st[j].call = "browser.close" /\ st[j].ok

\* A close with two tracked contexts went through all four calls, and a
\* close whose context.close failed has left the browser open.
C13_Witness ==
    /\ \E k \in CloseCallsMade :
          /\ Len(b_calls[k].tracked) = 2
          /\ Len(b_calls[k].steps) = 4
          /\ b_calls[k].steps[4].ok
    /\ \E k \in CloseCallsMade :
          /\ Len(b_calls[k].tracked) = 2
          /\ ~b_calls[k].steps[Len(b_calls[k].steps)].ok
          /\ b_calls[k].steps[Len(b_calls[k].steps)].call = "context.close"

\* C14: BrowserClient.close raises nothing to its caller, whichever of its
\* engine calls raised.
C14_CloseNeverRaises ==
    \A k \in CloseCallsMade : b_calls[k].raised = "none"

\* Closes have failed at a context, at the browser and at the driver, over
\* the calls made so far, and each returned.
C14_Witness ==
    \E k1, k2 \in CloseCallsMade :
        LET last(k) == b_calls[k].steps[Len(b_calls[k].steps)] IN
        /\ ~last(k1).ok /\ last(k1).call = "context.close"
        /\ ~last(k2).ok /\ last(k2).call \in {"browser.close", "playwright.stop"}
        /\ b_calls[k1].raised = "none"
        /\ b_calls[k2].raised = "none"

C16_AsStated ==
    (h_entry = "request" /\ h_pc \in {"returned", "raised"}) =>
        \A i \in DOMAIN h_handles : h_handles[i].closed

\* C17 as stated: an attempt that fails with something that is neither a
\* transport error or timeout nor a status error ends the call at once, with
\* no later attempt and no sleep after it, and the call raises
\* HttpClientError, from request and from request_raw alike.
C17_AsStated ==
    \A i \in DOMAIN h_outcomes :
        h_outcomes[i].kind = "ValueError" =>
            /\ i = Len(h_outcomes)
            /\ Len(h_sleeps) = i - 1
            /\ h_pc = "raised"
            /\ h_error.type = "HttpClientError"

\* C18: when a scrape built both clients and the browser close failed, the
\* HTTP client's close has still been called by the time _cleanup is left.
C18_CloseIndependent ==
    \A e \in DOMAIN r_exec :
        LET x == r_exec[e] IN
        (/\ x.browser_close_failed
         /\ x.http_client # "None"
         /\ \/ x.phase \in {"DONE", "FAILED"}
            \/ (x.phase = "CLEANUP" /\ x.pc = "end"))
        => x.http_close_calls = 1

\* A step of the browser close failed in a hybrid scrape, and the HTTP
\* client was closed after it.
C18_Witness ==
    \E e \in DOMAIN r_exec :
        /\ r_exec[e].browser_close_failed
        /\ r_exec[e].browser_close_calls = 1
        /\ r_exec[e].http_client = "closed"
        /\ r_exec[e].http_close_calls = 1
        /\ r_exec[e].phase = "DONE"

\* C19 as stated: when the spider's run failed and the cleanup failed too,
\* the error that reaches scrape's caller is the one reporting the failure of
\* the run.
C19_AsStated ==
    \A e \in DOMAIN r_exec :
        (r_exec[e].pending = "WeaverError" /\ r_exec[e].raised # None) =>
            r_exec[e].raised[1].stage = "run"

\* C20 as stated: when the browser close or the HTTP close failed during
\* cleanup, the scrape ends with an error that reports a close failure.
C20_AsStated ==
    \A e \in DOMAIN r_exec :
        (/\ r_exec[e].phase \in {"DONE", "FAILED"}
         /\ \/ r_exec[e].browser_close_failed
            \/ r_exec[e].http_client = "close_failed")
        => /\ r_exec[e].raised # None
           /\ r_exec[e].raised[1].stage = "cleanup"

\* C21: what the consumer has been handed is at every moment a prefix, in
\* order, of what the spider's run has yielded; whenever the next record is
\* being asked of the task, or the stream has ended, every record yielded so
\* far has been handed over; and when the run failed after n records the
\* consumer holds exactly those n when the error reaches it.
C21_StreamIsPrefix ==
    \A e \in DOMAIN r_exec :
        LET x == r_exec[e] IN
        /\ IsPrefix(x.records_in, x.records_out)
        /\ (x.phase = "RUN" /\ x.pc = "awaiting_task") => x.records_in = x.records_out
        /\ (x.pending = "WeaverError" /\ x.raised # None) =>
              /\ x.records_in = x.records_out
              /\ Len(x.records_in) = x.produced

\* The run yielded two different records and then failed; the consumer was
\* handed both, in order, and then the error.
C21_Witness ==
    \E e \in DOMAIN r_exec :
        /\ r_exec[e].records_out = <<"a", "b">>
        /\ r_exec[e].records_in = <<"a", "b">>
        /\ r_exec[e].pending = "WeaverError"
        /\ r_exec[e].raised # None

\* The acquire_static calls that returned an endpoint.
StaticReturned ==
    { i \in DOMAIN p_calls : p_calls[i].op = "static" /\ p_calls[i].outcome = "returned" }

\* C24: the leased set is one for all ProxyManagers of the process: an
\* endpoint acquire_static returned on one manager is never returned by
\* acquire_static on another manager built from the same pool, and it is in
\* the set every later call, on whichever manager, starts from.
C24_LeasedSetShared ==
    \A i, j \in StaticReturned :
        (i < j /\ p_calls[i].mgr # p_calls[j].mgr
               /\ p_pool[p_calls[i].mgr] = p_pool[p_calls[j].mgr]) =>
            /\ p_calls[i].endpoint # p_calls[j].endpoint
            /\ p_calls[i].endpoint[1] \in p_calls[j].leased_before

\* Two managers over one pool with two static endpoints: the first manager
\* was given one endpoint, the second manager the other.
C24_Witness ==
    \E i, j \in StaticReturned :
        /\ i < j
        /\ p_calls[i].mgr # p_calls[j].mgr
        /\ p_pool[p_calls[i].mgr] = p_pool[p_calls[j].mgr]
        /\ p_calls[i].endpoint # p_calls[j].endpoint

\* C25: in every order in which concurrent acquire_static (and
\* acquire_rotating) calls on a manager get to run, the endpoint a call
\* returns was free when the call was granted its permit and is leased when
\* any later call is granted its own, so no two calls return the same one.
C25_NoDoubleLease ==
    /\ \A i \in StaticReturned : p_calls[i].endpoint[1] \notin p_calls[i].leased_before
    /\ \A i, j \in StaticReturned : i # j => p_calls[i].endpoint # p_calls[j].endpoint
    /\ \A i \in DOMAIN p_calls :
          p_calls[i].leased_after =
              (IF i = Len(p_calls) THEN p_leased ELSE p_calls[i + 1].leased_before)

\* Two static calls returned, with a rotating call on the same manager
\* between them.
C25_Witness ==
    \E i, j \in StaticReturned : \E k \in DOMAIN p_calls :
        /\ i < k /\ k < j
        /\ p_calls[k].op = "rotating" /\ p_calls[k].outcome = "returned"

\* C29: an acquire_static that returns gives the first endpoint of the
\* configured list that was not leased when it ran, and the leased set
\* after it is the set before it plus that one endpoint.
C29_FirstFreeInOrder ==
    \A i \in StaticReturned :
        LET c == p_calls[i]
            list == p_pool[c.mgr].static_endpoints
        IN  \E k \in DOMAIN list :
              /\ c.endpoint = Some(list[k])
              /\ list[k] \notin c.leased_before
              /\ \A h \in 1 .. k - 1 : list[h] \in c.leased_before
              /\ c.leased_after = c.leased_before \cup {list[k]}
              /\ Cardinality(c.leased_after) = Cardinality(c.leased_before) + 1

\* A pool listing e2 before e1 gave e2 to the first call and e1 to the
\* second.
C29_Witness ==
    \E i, j \in StaticReturned :
        /\ i < j
        /\ p_pool[p_calls[i].mgr].static_endpoints = <<"e2", "e1">>
        /\ p_calls[i].endpoint = Some("e2")
        /\ p_calls[j].endpoint = Some("e1")
        /\ p_leased = {"e1", "e2"}

\* C26: a ProxyPool(...) call yields a pool only when max_connections >= 1
\* and a rotating endpoint or a non-empty static list is given; every other
\* call raises and yields no pool.
C26_PoolInvariant ==
    \A k \in DOMAIN p_made :
        LET a == p_made[k].args
            ok == /\ a.max_connections >= 1
                  /\ \/ a.rotating_endpoint \notin {None, Some("")}
                     \/ Len(a.static_endpoints) >= 1
        IN  /\ ok => (p_made[k].raised = "none" /\ p_made[k].pool = Some(a))
            /\ ~ok => (p_made[k].raised = "ValueError" /\ p_made[k].pool = None)

\* A pool with max_connections = 0 was refused, and so was one with an
\* empty rotating endpoint and no static endpoint; a pool with only static
\* endpoints was made.
C26_Witness ==
    /\ \E k \in DOMAIN p_made :
          /\ p_made[k].raised = "ValueError"
          /\ \/ (p_made[k].args.max_connections = 0
                  /\ p_made[k].args.static_endpoints # <<>>)
             \/ (p_made[k].args.max_connections >= 1
                  /\ p_made[k].args.rotating_endpoint = Some(""))
    /\ \E k \in DOMAIN p_made :
          /\ p_made[k].raised = "none"
          /\ p_made[k].args.rotating_endpoint = None

\* C22: a scrape of a spider class whose MODE is none of browser, http,
\* hybrid fails in build, with the build's WeaverError, without a
\* ProxyManager, a BrowserClient or an HttpClient having been constructed
\* and without the spider's run having been invoked.
C22_InvalidModeFailsFirst ==
    \A e \in DOMAIN r_exec :
        LET x == r_exec[e] IN
        (x.mode \in {"crawl", "None"} /\ x.phase \notin {"idle", "BUILD"}) =>
            /\ x.phase_log = <<"BUILD", "FAILED">>
            /\ x.raised # None
            /\ x.raised[1].stage = "build"
            /\ x.raised[1].context = Some("SpiderError")
            /\ ~x.proxy_manager
            /\ x.manager = 0
            /\ p_pool = <<>>
            /\ x.browser_client = "None"
            /\ x.http_client = "None"
            /\ ~x.run_invoked

\* A class with MODE = "crawl" on a runner configured with a pool, a
\* browser config and an HTTP config: the scrape has failed.
C22_Witness ==
    \E e \in DOMAIN r_exec :
        /\ r_exec[e].mode = "crawl"
        /\ r_exec[e].phase = "FAILED"
        /\ spider_config = [browser |-> TRUE, http |-> TRUE, proxy_pool |-> TRUE]

\* C23 as stated: over all scrape calls on one SpiderRunner at most one
\* ProxyManager is created, and the permits granted to all its spiders
\* together never exceed the pool's max_connections.
C23_AsStated ==
    /\ Len(p_pool) <= 1
    /\ Cardinality({ i \in DOMAIN p_calls :
                        p_calls[i].permits_after < p_calls[i].permits_before })
          <= RunnerProxyPool.max_connections

\* C28: after a successful build a BrowserClient exists only if MODE is
\* browser or hybrid, an HttpClient only if MODE is http or hybrid, and a
\* ProxyManager exactly when the SpiderConfig carries a pool.
C28_ClientsByMode ==
    \A e \in DOMAIN r_exec :
        LET x == r_exec[e] IN
        x.spider =>
            /\ x.browser_client # "None" => x.mode \in {"browser", "hybrid"}
            /\ x.http_client # "None" => x.mode \in {"http", "hybrid"}
            /\ x.proxy_manager = spider_config.proxy_pool
            /\ x.proxy_manager = (x.manager # 0)

\* An http spider built on a runner that also carries a browser config and a
\* pool: no browser, an HTTP client, a ProxyManager.
C28_Witness ==
    \E e \in DOMAIN r_exec :
        /\ r_exec[e].spider
        /\ r_exec[e].mode = "http"
        /\ spider_config = [browser |-> TRUE, http |-> TRUE, proxy_pool |-> TRUE]
        /\ r_exec[e].browser_client = "None"
        /\ r_exec[e].http_client = "open"
        /\ r_exec[e].proxy_manager

\* C27 as stated: a new_context or new_page call that fails, in the engine
\* call or in installing the overrides, raises BrowserClientError.
C27_AsStated ==
    \A k \in DOMAIN b_calls :
        (b_calls[k].op \in {"new_context", "new_page"} /\ b_calls[k].raised # "none")
            => b_calls[k].raised = "BrowserClientError"

\* C30 as stated: a context returned by new_context is tracked until a close
\* call, every context tracked when close is called has its close() invoked
\* by that call, and after a close none of whose steps failed a later close
\* invokes close() on none of the contexts of the earlier one.
C30_AsStated ==
    /\ \A j \in DOMAIN b_calls :
          (/\ b_calls[j].op = "new_context"
           /\ b_calls[j].returned # None
           /\ \A k \in CloseCallsMade : k < j)
              => \E t \in DOMAIN b_open_contexts :
                    b_open_contexts[t] = b_calls[j].returned[1]
    /\ \A k \in CloseCallsMade :
          \A t \in DOMAIN b_calls[k].tracked :
              \E i \in DOMAIN b_calls[k].steps :
                  /\ b_calls[k].steps[i].call = "context.close"
                  /\ b_calls[k].steps[i].target = b_calls[k].tracked[t]
    /\ \A k, l \in CloseCallsMade :
          (k < l /\ \A i \in DOMAIN b_calls[k].steps : b_calls[k].steps[i].ok)
              => \A i \in DOMAIN b_calls[l].steps :
                    b_calls[l].steps[i].call = "context.close"
                        => \A t \in DOMAIN b_calls[k].tracked :
                              b_calls[k].tracked[t] # b_calls[l].steps[i].target

\* C31: a page handle returned by new_page has the webdriver, history
\* length, languages and platform scripts registered on the page as init
\* scripts, in that order; a new_page call in which a registration (or the
\* page's creation) raised returns no handle.
C31_HandleAfterAllOverrides ==
    /\ \A p \in DOMAIN b_pages :
          b_pages[p].returned =>
              /\ Len(b_pages[p].init_scripts) = 4
              /\ b_pages[p].init_scripts[1].prop = "webdriver"
              /\ b_pages[p].init_scripts[2].prop = "history_length"
              /\ b_pages[p].init_scripts[3].prop = "languages"
              /\ b_pages[p].init_scripts[4].prop = "platform"
    /\ \A k \in DOMAIN b_calls :
          b_calls[k].op = "new_page" =>
              /\ (b_calls[k].raised # "none") = (b_calls[k].returned = None)
              /\ b_calls[k].returned # None =>
                    /\ b_calls[k].returned[1] \in DOMAIN b_pages
                    /\ b_pages[b_calls[k].returned[1]].returned
    /\ Cardinality({ p \in DOMAIN b_pages : b_pages[p].returned })
          = Cardinality({ k \in DOMAIN b_calls :
                            b_calls[k].op = "new_page" /\ b_calls[k].returned # None })

\* One new_page handed out its page, and another raised at the third
\* registration, leaving a page with two scripts that nobody was handed.
C31_Witness ==
    /\ \E p \in DOMAIN b_pages :
          b_pages[p].returned /\ Len(b_pages[p].init_scripts) = 4
    /\ \E p \in DOMAIN b_pages :
          ~b_pages[p].returned /\ Len(b_pages[p].init_scripts) = 2

\* C32 as stated: in every call of BrowserClient.close, close() is invoked
\* on every tracked context, close() on the browser and stop() on the
\* driver, whichever of the earlier steps failed.
C32_AsStated ==
    \A k \in CloseCallsMade :
        LET st == b_calls[k].steps
            invoked(call, target) ==
                \E i \in DOMAIN st : st[i].call = call /\ st[i].target = target
        IN  /\ \A t \in DOMAIN b_calls[k].tracked :
                  invoked("context.close", b_calls[k].tracked[t])
            /\ invoked("browser.close", 0)
            /\ invoked("playwright.stop", 0)

\* C33: no step of a ProxyManager takes an endpoint out of the leased set or
\* gives a permit back: from each state to the next the leased set keeps all
\* its members and no manager's count of free permits goes up.
C33_NoRelease ==
    [][ /\ p_leased \subseteq p_leased'
        /\ DOMAIN p_value \subseteq DOMAIN p_value'
        /\ \A m \in DOMAIN p_value : p_value'[m] <= p_value[m] ]_vars

\* Both static endpoints leased and every permit of a pool of three taken,
\* with a later call left waiting.
C33_Witness ==
    /\ p_leased = {"e1", "e2"}
    /\ \E m \in DOMAIN p_pool : p_pool[m].max_connections = 3 /\ p_value[m] = 0
    /\ \E i \in DOMAIN p_calls : p_calls[i].outcome = "suspended"

\* C34: the leased set is keyed by the endpoint string alone and is the
\* same for every ProxyManager of the process, whatever its pool: an
\* acquire_static that got its permit starts from all the endpoints any
\* manager returned before, never returns one of them, and raises
\* ProxyError only when every endpoint of its own list is among them.
C34_LeasesKeyedByString ==
    \A j \in DOMAIN p_calls :
        LET c == p_calls[j]
            earlier == { p_calls[i].endpoint[1] : i \in { h \in StaticReturned : h < j } }
            list == p_pool[c.mgr].static_endpoints
        IN  (c.op = "static" /\ c.outcome \in {"returned", "ProxyError"}) =>
              /\ earlier = c.leased_before
              /\ c.outcome = "returned" => c.endpoint[1] \notin earlier
              /\ c.outcome = "ProxyError" => \A h \in DOMAIN list : list[h] \in earlier

\* A manager of a pool listing e1 leased e1; a manager of another pool,
\* listing e1 and e2, was on its first call given e2.
C34_Witness ==
    /\ Len(p_pool) = 2
    /\ p_pool[1].static_endpoints = <<"e1">>
    /\ p_pool[2].static_endpoints = <<"e1", "e2">>
    /\ p_pool[1].max_connections # p_pool[2].max_connections
    /\ Len(p_calls) = 2
    /\ p_calls[1].mgr = 1 /\ p_calls[1].endpoint = Some("e1")
    /\ p_calls[2].mgr = 2 /\ p_calls[2].endpoint = Some("e2")

\* C35: when the first k attempts of a call fail with a retryable transport
\* error and the next one gets a response with status < 400, the call
\* returns that response after exactly k + 1 requests, having slept
\* retry_delay * 2^i after each failed attempt i < k, and nothing follows.
C35_SuccessAfterRetries ==
    LET n == Len(h_outcomes)
        k == n - 1
    IN  (/\ n >= 1
         /\ h_outcomes[n].kind = "response" /\ h_outcomes[n].status < 400
         /\ \A i \in 1 .. k : h_outcomes[i].kind \in {"RequestsError", "TimeoutError"}) =>
            /\ h_pc = "returned"
            /\ k <= h_config.max_retries
            /\ h_result = Some([status |-> h_outcomes[n].status, at |-> k])
            /\ h_error = NoError
            /\ Len(h_sent) = k + 1
            /\ Len(h_sleeps) = k
            /\ \A i \in 0 .. k - 1 : h_sleeps[i + 1] = h_config.retry_delay * Pow2(i)

\* request_raw with max_retries = 2 returned on its third attempt, after a
\* timeout and a transport error.
C35_Witness ==
    /\ h_entry = "request_raw"
    /\ h_pc = "returned"
    /\ h_config.max_retries = 2 /\ h_config.retry_delay = 2
    /\ Len(h_outcomes) = 3
    /\ h_outcomes[1].kind = "TimeoutError"
    /\ h_outcomes[2].kind = "RequestsError"
    /\ h_sleeps = <<2, 4>>

\* The acquire_static calls that raised ProxyError.
StaticRefused ==
    { i \in DOMAIN p_calls : p_calls[i].op = "static" /\ p_calls[i].outcome = "ProxyError" }

\* C36: an acquire_static that raises ProxyError, every static endpoint of
\* its pool being leased, took a permit before it scanned and keeps it: the
\* manager's free permits are one fewer after the call than before, and the
\* leased set is as it was.
C36_RefusedCallKeepsPermit ==
    \A i \in StaticRefused :
        LET c == p_calls[i]
            list == p_pool[c.mgr].static_endpoints
            next == { j \in DOMAIN p_calls : j > i /\ p_calls[j].mgr = c.mgr }
        IN  /\ \A h \in DOMAIN list : list[h] \in c.leased_before
            /\ c.permits_before >= 1
            /\ c.permits_after = c.permits_before - 1
            /\ c.leased_after = c.leased_before
            /\ c.endpoint = None
            /\ next = {} => p_value[c.mgr] = c.permits_after
            /\ \A j \in next : p_calls[j].permits_before <= c.permits_after

\* A pool of one static endpoint and three permits: the first call leased
\* the endpoint, the second was refused and left one permit.
C36_Witness ==
    /\ Len(p_calls) = 2
    /\ p_pool[1].static_endpoints = <<"e1">>
    /\ p_pool[1].max_connections = 3
    /\ p_calls[1].outcome = "returned"
    /\ 2 \in StaticRefused
    /\ p_value[1] = 1
    /\ p_leased = {"e1"}

\* The calls made on manager m before call j that took a permit, the
\* static calls that then raised ProxyError among them.
TookPermitBefore(m, j) ==
    { i \in 1 .. j - 1 :
        /\ p_calls[i].mgr = m
        /\ p_calls[i].outcome \in {"returned", "ProxyError"} }

\* The kind of endpoint call j asks for is configured in its manager's pool.
KindConfigured(j) ==
    LET pool == p_pool[p_calls[j].mgr]
    IN  IF p_calls[j].op = "rotating" THEN pool.rotating_endpoint \notin {None, Some("")}
        ELSE Len(pool.static_endpoints) >= 1

\* C37: on one ProxyManager, a call of acquire_rotating or acquire_static
\* for a configured kind made after max_connections calls took a permit is
\* suspended, with nothing returned or raised, and stays so in every later
\* state.
C37_ExhaustedGateSuspends ==
    /\ [](\A j \in DOMAIN p_calls :
            (/\ KindConfigured(j)
             /\ Cardinality(TookPermitBefore(p_calls[j].mgr, j))
                  = p_pool[p_calls[j].mgr].max_connections) =>
                /\ p_calls[j].outcome = "suspended"
                /\ p_calls[j].endpoint = None
                /\ p_calls[j].permits_after = 0)
    /\ [][\A j \in DOMAIN p_calls :
            p_calls[j].outcome = "suspended" =>
                (j \in DOMAIN p_calls' /\ p_calls'[j] = p_calls[j])]_vars

\* Two permits: a static call took one and returned, a second static call
\* took the other and raised ProxyError; the rotating and the static call
\* after them are both suspended.
C37_Witness ==
    /\ Len(p_calls) = 4
    /\ p_pool[1].max_connections = 2
    /\ p_calls[1].op = "static" /\ p_calls[1].outcome = "returned"
    /\ p_calls[2].op = "static" /\ p_calls[2].outcome = "ProxyError"
    /\ p_calls[3].op = "rotating" /\ p_calls[3].outcome = "suspended"
    /\ p_calls[4].op = "static" /\ p_calls[4].outcome = "suspended"

\* C38: a call with a negative max_retries sends no request, sleeps not at
\* all and raises HttpClientError; a call with max_retries >= 0 that is over
\* has sent at least one request.
C38_NegativeRetriesSendNothing ==
    h_pc # "idle" =>
        /\ h_config.max_retries < 0 =>
              /\ h_pc = "raised"
              /\ h_error.type = "HttpClientError"
              /\ h_error.status_code = None /\ h_error.cause = None
              /\ h_sent = <<>>
              /\ h_outcomes = <<>>
              /\ h_sleeps = <<>>
              /\ h_result = None
        /\ (h_config.max_retries >= 0 /\ h_pc \in {"returned", "raised"}) =>
              /\ Len(h_sent) >= 1
              /\ Len(h_outcomes) >= 1

\* request_raw was called with max_retries = -1 and has raised.
C38_Witness ==
    /\ h_entry = "request_raw"
    /\ h_config.max_retries = -1
    /\ h_pc = "raised"
    /\ h_sent = <<>>

\* C39: a BrowserClient.create whose browser launch failed, the driver
\* having started, has raised BrowserClientError and returned no client, and
\* from then on the driver it started is running, never stopped.
C39_FailedLaunchLeavesDriver ==
    \A k \in DOMAIN b_calls :
        (b_calls[k].op = "create" /\ b_calls[k].failed_at = "browser") =>
            /\ b_calls[k].raised = "BrowserClientError"
            /\ b_calls[k].returned = None
            /\ b_engine.playwright = "running"
            /\ b_engine.browser = "none"
            /\ \A j \in DOMAIN b_calls : j # k => b_calls[j].op # "close"

\* The launch failed after the driver had started.
C39_Witness ==
    /\ Len(b_calls) = 1
    /\ b_calls[1].op = "create"
    /\ b_calls[1].failed_at = "browser"
    /\ b_engine.playwright = "running"

\* The client objects execution e built.
ClientsOf(e) == {r_exec[e].browser_id, r_exec[e].http_id} \ {<<>>}

\* C40: two scrape calls on one SpiderRunner, in whatever interleaving, hold
\* different BrowserClient and HttpClient objects, each built by its own
\* call, and the _cleanup of a call closes its own clients only: a client
\* is open until its own call closes it.
C40_ClientsPerExecution ==
    \A e1, e2 \in DOMAIN r_exec :
        /\ e1 # e2 =>
              /\ ClientsOf(e1) \cap ClientsOf(e2) = {}
              /\ r_exec[e1].closed_ids \cap ClientsOf(e2) = {}
        /\ r_exec[e1].closed_ids \subseteq ClientsOf(e1)
        /\ r_exec[e1].browser_client = "open" =>
              /\ r_exec[e1].browser_id # <<>>
              /\ r_exec[e1].browser_id \notin r_exec[e2].closed_ids
        /\ r_exec[e1].http_client = "open" =>
              /\ r_exec[e1].http_id # <<>>
              /\ r_exec[e1].http_id \notin r_exec[e2].closed_ids
        /\ (r_exec[e1].browser_id # <<>>
              /\ r_exec[e1].browser_id \notin r_exec[e1].closed_ids) =>
                 r_exec[e1].browser_client = "open"
        /\ (r_exec[e1].http_id # <<>>
              /\ r_exec[e1].http_id \notin r_exec[e1].closed_ids) =>
                 r_exec[e1].http_client = "open"

\* Two hybrid scrapes were running together, each with both clients; the
\* first has finished its cleanup and the second is still running with both
\* its clients open.
C40_Witness ==
    /\ r_exec[1].phase = "DONE"
    /\ Cardinality(r_exec[1].closed_ids) = 2
    /\ r_exec[2].phase = "RUN"
    /\ r_exec[2].browser_client = "open"
    /\ r_exec[2].http_client = "open"
    /\ r_exec[2].browser_id = <<"browser", 1>>
    /\ r_exec[1].browser_id = <<"browser", 2>>

====
